---- MODULE Spec2Model ----
(***************************************************************************)
(* CRM backend: Customer / Product / Order tables, the GraphQL mutations   *)
(* of crm/schema.py and the scheduled jobs of crm/cron.py and              *)
(* crm/cronjobs/send_order_reminders.py.                                   *)
(*                                                                         *)
(* Every request is served by a client slot.  A mutation advances one      *)
(* database operation at a time (one query, insert or update per step), so *)
(* that requests served concurrently interleave exactly at the points      *)
(* where the code talks to the database.                                   *)
(*                                                                         *)
(* Optional values (Python None) are sets with at most one element:        *)
(* None == {} and a present value x is {x}.                                *)
(* Money is counted in thousandths of a currency unit (10.00 is 10000).    *)
(***************************************************************************)
EXTENDS Integers, Sequences, FiniteSets, TLC

VARIABLES
    customers,      \* Customer table: sequence of rows, id = position
    products,       \* Product table: sequence of rows, id = position
    orders,         \* committed Order rows (a set: ids may have gaps)
    order_products, \* committed rows of the Order<->Product association table
    order_seq,      \* last id handed out by the Order table's id sequence
    now,            \* the clock read by auto_now / datetime.now()
    pc,             \* per client: where its current request stands
    req,            \* per client: the request's input and local variables
    result,         \* per client: the object returned by the last request
    heartbeat_log,  \* /tmp/crm_heartbeat_log.txt, one entry per line
    low_stock_log,  \* /tmp/low_stock_updates_log.txt, one entry per line
    reminders_log,  \* /tmp/order_reminders_log.txt, one entry per line
    job             \* the last scheduled-job invocation and how it ended

vars == <<customers, products, orders, order_products, order_seq, now, pc, req,
          result, heartbeat_log, low_stock_log, reminders_log, job>>

custVars  == <<customers>>
prodVars  == <<products>>
orderVars == <<orders, order_products, order_seq>>
logVars   == <<heartbeat_log, low_stock_log, reminders_log, job>>

----------------------------------------------------------------------------
(* Bounds of the model *)

MaxBulk == 3

Clients == {"c1", "c2"}

\* The client that issues the list-valued and multi-step requests; the other
\* client races it with single requests.  Each entry of a bulk request goes
\* through the same exists() / create() pair as CreateCustomer, so a second
\* bulk client would add no new interleaving of database operations.
BulkClients == {"c1"}

\* The client of the specifications in which requests are served one after
\* another, each mutation running from start to return without interference.
SeqClients == {"c1"}

MaxProducts == 3
MaxTime == 2
MaxOrders == 2
MaxLog == 3

None == {}
Some(x) == {x}
Get(o) == CHOOSE x \in o : TRUE

----------------------------------------------------------------------------
(* Validation helpers *)

Digit == {"0", "1", "2", "3", "4", "5", "6", "7", "8", "9"}
Whitespace == {" ", "\t", "\n", "\r", "\f"}
Separator == {"-", "."} \cup Whitespace

\* One regex step over the set S of positions reached so far (characters
\* consumed): consume one character of the class.
One(S, class, s) == {p + 1 : p \in {q \in S : q < Len(s) /\ s[q + 1] \in class}}
\* class?
Opt(S, class, s) == S \cup One(S, class, s)
\* class{3}, class{4}, class{1,3}
Three(S, class, s) == One(One(One(S, class, s), class, s), class, s)
Four(S, class, s) == One(Three(S, class, s), class, s)
OneToThree(S, class, s) ==
    One(S, class, s) \cup One(One(S, class, s), class, s) \cup Three(S, class, s)

\* (\+?\d{1,3}[-.\s]?)?
CountryCode(S, s) == S \cup Opt(OneToThree(Opt(S, {"+"}, s), Digit, s), Separator, s)
\* (\(?\d{3}\)?[-.\s]?)?
AreaCode(S, s) ==
    S \cup Opt(Opt(Three(Opt(S, {"("}, s), Digit, s), {")"}, s), Separator, s)
\* \d{3}[-.\s]?\d{4}
LocalNumber(S, s) == Four(Opt(Three(S, Digit, s), Separator, s), Digit, s)

\* re.match(r'^(\+?\d{1,3}[-.\s]?)?(\(?\d{3}\)?[-.\s]?)?\d{3}[-.\s]?\d{4}$', s);
\* $ matches at the end and just before a final newline.
PhonePatternMatches(s) ==
    \E p \in LocalNumber(AreaCode(CountryCode({0}, s), s), s) :
        \/ p = Len(s)
        \/ p = Len(s) - 1 /\ s[Len(s)] = "\n"

\* Python truthiness of an optional string: None and "" are falsy.
Truthy(o) == o # None /\ Len(Get(o)) > 0

validate_phone(phone) ==
    IF ~Truthy(phone) THEN TRUE ELSE PhonePatternMatches(Get(phone))

\* Sample addresses; django's validate_email raises ValidationError on the
\* malformed ones and returns on the others.
MalformedEmails == {"not-an-email"}
validate_email(email) == email \notin MalformedEmails

----------------------------------------------------------------------------
(* Sample inputs *)

PhoneDashed == <<"1", "2", "3", "-", "4", "5", "6", "-", "7", "8", "9", "0">>
PhoneShort == <<"1", "2", "3", "4", "5">>

\* Customer inputs: two well-formed addresses (one also with a phone the
\* pattern rejects) and a malformed address.
CustomerInput ==
    {[name |-> "Ann", email |-> "a@example.com", phone |-> None],
     [name |-> "Ann", email |-> "a@example.com", phone |-> Some(PhoneShort)],
     [name |-> "Bob", email |-> "b@example.com", phone |-> Some(PhoneDashed)],
     [name |-> "Eve", email |-> "not-an-email", phone |-> None]}

SeqsUpTo(S, n) == UNION {[1..k -> S] : k \in 0..n}

----------------------------------------------------------------------------
(* Persistence layer: Customer *)

CustomerEmails(table) == {table[i].email : i \in 1..Len(table)}

\* Customer.objects.filter(email=...).exists()
EmailExists(table, email) == email \in CustomerEmails(table)

\* The row Customer.objects.create(...) inserts.
NewCustomer(table, input) ==
    [id |-> Len(table) + 1, name |-> input.name, email |-> input.email,
     phone |-> IF Truthy(input.phone) THEN input.phone ELSE None]

\* A Customer table without the unique index.
UniqueViolationOff(table, email) == FALSE

\* The unique index on Customer.email: an insert of an email that is already
\* stored raises IntegrityError.
UniqueViolation(table, email) == email \in CustomerEmails(table)

\* A client slot with no request yet, and the result slot of a request that
\* has not returned.
NoRequest == [op |-> "none"]
NoResult == [pending |-> TRUE]

\* A client sends its next request once the previous response has been delivered.
Idle(r) == pc[r] = "idle"

\* The response of a finished mutation is delivered and the request ends.
Respond(r) ==
    /\ pc[r] = "done"
    /\ pc' = [pc EXCEPT ![r] = "idle"]
    /\ req' = [req EXCEPT ![r] = NoRequest]
    /\ result' = [result EXCEPT ![r] = NoResult]
    /\ UNCHANGED <<custVars, prodVars, orderVars, logVars, now>>

----------------------------------------------------------------------------
(* CreateCustomer.mutate *)

CreateCustomerBegin(r) ==
    /\ Idle(r)
    /\ \E input \in CustomerInput :
        req' = [req EXCEPT ![r] = [op |-> "CreateCustomer", input |-> input]]
    /\ pc' = [pc EXCEPT ![r] = "cc_check"]
    /\ result' = [result EXCEPT ![r] = NoResult]
    /\ UNCHANGED <<custVars, prodVars, orderVars, logVars, now>>

\* validate_email, the exists() query and validate_phone.
CreateCustomerCheck(r) ==
    /\ pc[r] = "cc_check"
    /\ LET input == req[r].input IN
        IF ~validate_email(input.email) THEN
            /\ result' = [result EXCEPT ![r] =
                    [customer |-> None, message |-> "Validation error: ['Enter a valid email address.']",
                     success |-> FALSE]]
            /\ pc' = [pc EXCEPT ![r] = "done"]
        ELSE IF EmailExists(customers, input.email) THEN
            /\ result' = [result EXCEPT ![r] =
                    [customer |-> None, message |-> "Email already exists",
                     success |-> FALSE]]
            /\ pc' = [pc EXCEPT ![r] = "done"]
        ELSE IF Truthy(input.phone) /\ ~validate_phone(input.phone) THEN
            /\ result' = [result EXCEPT ![r] =
                    [customer |-> None,
                     message |-> "Invalid phone format. Use +1234567890 or 123-456-7890",
                     success |-> FALSE]]
            /\ pc' = [pc EXCEPT ![r] = "done"]
        ELSE
            /\ pc' = [pc EXCEPT ![r] = "cc_create"]
            /\ UNCHANGED result
    /\ UNCHANGED <<custVars, prodVars, orderVars, logVars, now, req>>

\* Customer.objects.create(...); IntegrityError lands in `except Exception`.
CreateCustomerInsert(r) ==
    /\ pc[r] = "cc_create"
    /\ LET input == req[r].input IN
        IF UniqueViolation(customers, input.email) THEN
            /\ result' = [result EXCEPT ![r] =
                    [customer |-> None, message |-> "Error: IntegrityError",
                     success |-> FALSE]]
            /\ UNCHANGED customers
        ELSE
            /\ customers' = Append(customers, NewCustomer(customers, input))
            /\ result' = [result EXCEPT ![r] =
                    [customer |-> Some(NewCustomer(customers, input)),
                     message |-> "Customer created successfully", success |-> TRUE]]
    /\ pc' = [pc EXCEPT ![r] = "done"]
    /\ UNCHANGED <<prodVars, orderVars, logVars, now, req>>

----------------------------------------------------------------------------
(* BulkCreateCustomers.mutate *)

RowError(idx, text) == "Row " \o ToString(idx) \o ": " \o text

\* A loop that stops at the first entry it has dealt with.
NextEntryBreak(idx, input) == Len(input) + 1

\* `for idx, customer_data in enumerate(input)`: on to the next entry, after
\* `continue`, after an except clause and after a created row alike.
NextEntry(idx, input) == idx + 1

BulkCreateCustomersBegin(r) ==
    /\ Idle(r)
    /\ r \in BulkClients
    /\ \E input \in SeqsUpTo(CustomerInput, MaxBulk) :
        req' = [req EXCEPT ![r] =
                    [op |-> "BulkCreateCustomers", input |-> input, idx |-> 1,
                     customers |-> <<>>, errors |-> <<>>]]
    /\ pc' = [pc EXCEPT ![r] = "bc_check"]
    /\ result' = [result EXCEPT ![r] = NoResult]
    /\ UNCHANGED <<custVars, prodVars, orderVars, logVars, now>>

\* One entry of the loop up to the insert: validate_email, exists(), validate_phone.
BulkCreateCustomersCheck(r) ==
    /\ pc[r] = "bc_check"
    /\ req[r].idx <= Len(req[r].input)
    /\ LET idx == req[r].idx
           data == req[r].input[idx]
           skip(text) ==
               /\ req' = [req EXCEPT ![r].errors = Append(@, RowError(idx, text)),
                                     ![r].idx = NextEntry(idx, req[r].input)]
               /\ UNCHANGED pc
       IN  IF ~validate_email(data.email) THEN
               skip("Validation error - ['Enter a valid email address.']")
           ELSE IF EmailExists(customers, data.email) THEN
               skip("Email " \o data.email \o " already exists")
           ELSE IF Truthy(data.phone) /\ ~validate_phone(data.phone) THEN
               skip("Invalid phone format for " \o data.email)
           ELSE
               /\ pc' = [pc EXCEPT ![r] = "bc_create"]
               /\ UNCHANGED req
    /\ UNCHANGED <<custVars, prodVars, orderVars, logVars, now, result>>

\* Customer.objects.create(...) of the entry; IntegrityError is a row error.
BulkCreateCustomersInsert(r) ==
    /\ pc[r] = "bc_create"
    /\ LET idx == req[r].idx
           data == req[r].input[idx]
       IN  IF UniqueViolation(customers, data.email) THEN
               /\ req' = [req EXCEPT
                            ![r].errors = Append(@, RowError(idx, "Error - IntegrityError")),
                            ![r].idx = NextEntry(idx, req[r].input)]
               /\ UNCHANGED customers
           ELSE
               /\ customers' = Append(customers, NewCustomer(customers, data))
               /\ req' = [req EXCEPT
                            ![r].customers = Append(@, NewCustomer(customers, data)),
                            ![r].idx = NextEntry(idx, req[r].input)]
    /\ pc' = [pc EXCEPT ![r] = "bc_check"]
    /\ UNCHANGED <<prodVars, orderVars, logVars, now, result>>

BulkCreateCustomersReturn(r) ==
    /\ pc[r] = "bc_check"
    /\ req[r].idx > Len(req[r].input)
    /\ result' = [result EXCEPT ![r] =
            [customers |-> req[r].customers,
             errors |-> IF Len(req[r].errors) > 0 THEN Some(req[r].errors) ELSE None,
             success |-> Len(req[r].customers) > 0]]
    /\ pc' = [pc EXCEPT ![r] = "done"]
    /\ UNCHANGED <<custVars, prodVars, orderVars, logVars, now, req>>

----------------------------------------------------------------------------
(* Initial state and the customer specification *)

Init ==
    /\ customers = <<>>
    /\ products = <<>>
    /\ orders = {}
    /\ order_products = {}
    /\ order_seq = 0
    /\ now = 0
    /\ pc = [r \in Clients |-> "idle"]
    /\ req = [r \in Clients |-> NoRequest]
    /\ result = [r \in Clients |-> NoResult]
    /\ heartbeat_log = <<>>
    /\ low_stock_log = <<>>
    /\ reminders_log = <<>>
    /\ job = [name |-> "none", status |-> "none"]

CustomerNext ==
    \E r \in Clients :
        \/ CreateCustomerBegin(r)
        \/ CreateCustomerCheck(r)
        \/ CreateCustomerInsert(r)
        \/ BulkCreateCustomersBegin(r)
        \/ BulkCreateCustomersCheck(r)
        \/ BulkCreateCustomersInsert(r)
        \/ BulkCreateCustomersReturn(r)
        \/ Respond(r)

SpecCustomer == Init /\ [][CustomerNext]_vars

----------------------------------------------------------------------------
(* Persistence layer: Product *)

\* Product inputs (price in thousandths): 5.50 with the stock omitted, 5.50 with
\* stock 3, 10.00 with stock 9 and with stock 10 (either side of the low-stock
\* threshold), 0.001 with stock 15, and the two inputs the mutation rejects:
\* price 0 and stock -1.
ProductInput ==
    {[name |-> "Pen", price |-> 5500, stock |-> None],
     [name |-> "Pen", price |-> 5500, stock |-> Some(3)],
     [name |-> "Nut", price |-> 10000, stock |-> Some(9)],
     [name |-> "Nut", price |-> 10000, stock |-> Some(10)],
     [name |-> "Nut", price |-> 1, stock |-> Some(15)],
     [name |-> "Pen", price |-> 0, stock |-> Some(3)],
     [name |-> "Nut", price |-> 5500, stock |-> Some(0 - 1)]}

\* Alphabetical order of the sample names (Meta.ordering = ['name']).
NameRank(name) == IF name = "Nut" THEN 1 ELSE 2

\* DecimalField(max_digits=10, decimal_places=2): the value is written to the
\* column quantized to two decimal places, rounding half to even.  Prices are
\* in thousandths, so the stored value is a multiple of 10.
QuantizeCents(p) ==
    LET q == p \div 10
        rem == p % 10
    IN  IF rem > 5 \/ (rem = 5 /\ q % 2 = 1) THEN (q + 1) * 10 ELSE q * 10

\* The in-memory instance Product.objects.create(...) returns: the fields as
\* given, the id of the inserted row, updated_at from auto_now.
NewProduct(table, input, stock, t) ==
    [id |-> Len(table) + 1, name |-> input.name, price |-> input.price,
     stock |-> stock, updated_at |-> t]

\* The row as the table stores it.
StoredProduct(inst) == [inst EXCEPT !.price = QuantizeCents(@)]

LowStockThreshold == 10
RestockIncrement == 10

Before(a, b) ==
    \/ NameRank(a.name) < NameRank(b.name)
    \/ NameRank(a.name) = NameRank(b.name) /\ a.id < b.id

RECURSIVE OrderByName(_)
OrderByName(rows) ==
    IF rows = {} THEN <<>>
    ELSE LET first == CHOOSE a \in rows : \A b \in rows \ {a} : Before(a, b)
         IN  <<first>> \o OrderByName(rows \ {first})

\* A filter that also selects the products at the threshold (stock__lte).
LowStockInclusive(table) ==
    OrderByName({table[i] : i \in {k \in 1..Len(table) : table[k].stock <= LowStockThreshold}})

\* Product.objects.filter(stock__lt=10), evaluated by the for loop.
LowStock(table) ==
    OrderByName({table[i] : i \in {k \in 1..Len(table) : table[k].stock < LowStockThreshold}})

\* An increment too small to lift a low stock over the threshold.
RestockByOne(inst) == [inst EXCEPT !.stock = @ + 1]

\* product.stock += 10
Restock(inst) == [inst EXCEPT !.stock = @ + RestockIncrement]

\* product.save(): auto_now sets updated_at on the instance, and every field of
\* the instance is written to its row.
Touch(inst, t) == [inst EXCEPT !.updated_at = t]
SaveProduct(table, inst) == [table EXCEPT ![inst.id] = StoredProduct(inst)]

RECURSIVE SaveAll(_, _)
SaveAll(table, insts) ==
    IF insts = <<>> THEN table
    ELSE SaveAll(SaveProduct(table, Head(insts)), Tail(insts))

\* A summary that switches to another text when nothing was updated.
UpdatedMessageNoneFound(n) ==
    IF n = 0 THEN "No low-stock products found"
    ELSE ToString(n) \o " products updated successfully"

\* f"{len(updated)} products updated successfully"
UpdatedMessage(n) == ToString(n) \o " products updated successfully"

----------------------------------------------------------------------------
(* CreateProduct.mutate and UpdateLowStockProducts.mutate, each from start to *)
(* return                                                                     *)

CreateProduct(r) ==
    /\ Idle(r)
    /\ r \in SeqClients
    /\ Len(products) < MaxProducts
    /\ \E input \in ProductInput :
        LET stock == IF input.stock # None THEN Get(input.stock) ELSE 0
            product == NewProduct(products, input, stock, now)
        IN  /\ req' = [req EXCEPT ![r] = [op |-> "CreateProduct", input |-> input]]
            /\ IF input.price <= 0 THEN
                   /\ result' = [result EXCEPT ![r] =
                           [product |-> None, message |-> "Price must be positive",
                            success |-> FALSE]]
                   /\ UNCHANGED products
               ELSE IF stock < 0 THEN
                   /\ result' = [result EXCEPT ![r] =
                           [product |-> None, message |-> "Stock cannot be negative",
                            success |-> FALSE]]
                   /\ UNCHANGED products
               ELSE
                   /\ products' = Append(products, StoredProduct(product))
                   /\ result' = [result EXCEPT ![r] =
                           [product |-> Some(product),
                            message |-> "Product created successfully",
                            success |-> TRUE]]
    /\ pc' = [pc EXCEPT ![r] = "done"]
    /\ UNCHANGED <<custVars, orderVars, logVars, now>>

\* The instances the loop has saved, as appended to `updated`.
Restocked(table, t) ==
    LET selected == LowStock(table)
    IN  [i \in 1..Len(selected) |-> Touch(Restock(selected[i]), t)]

UpdateLowStockProducts(r) ==
    /\ Idle(r)
    /\ r \in SeqClients
    /\ LET updated == Restocked(products, now)
       IN  /\ products' = SaveAll(products, updated)
           /\ result' = [result EXCEPT ![r] =
                   [message |-> UpdatedMessage(Len(updated)),
                    updated_products |-> updated]]
    /\ req' = [req EXCEPT ![r] = [op |-> "UpdateLowStockProducts"]]
    /\ pc' = [pc EXCEPT ![r] = "done"]
    /\ UNCHANGED <<custVars, orderVars, logVars, now>>

\* Time passes.
Tick ==
    /\ now < MaxTime
    /\ now' = now + 1
    /\ UNCHANGED <<custVars, prodVars, orderVars, logVars, pc, req, result>>

ProductNext ==
    \/ \E r \in Clients : CreateProduct(r)
    \/ \E r \in Clients : UpdateLowStockProducts(r)
    \/ \E r \in Clients : Respond(r)
    \/ Tick

SpecProduct == Init /\ [][ProductNext]_vars

----------------------------------------------------------------------------
(* UpdateLowStockProducts.mutate statement by statement, for invocations    *)
(* that run at the same time.  No statement of mutate takes a lock or opens *)
(* a transaction: each query and each save() is a database operation of its *)
(* own, and other requests run between them.                                *)

\* `for product in low_stock_products`: the loop evaluates the queryset, one
\* SELECT whose rows become the in-memory instances the loop walks over.
UpdateLowStockProductsSelect(r) ==
    /\ Idle(r)
    /\ req' = [req EXCEPT ![r] =
                [op |-> "UpdateLowStockProducts", selected |-> LowStock(products),
                 idx |-> 1, updated |-> <<>>]]
    /\ pc' = [pc EXCEPT ![r] = "ul_save"]
    /\ result' = [result EXCEPT ![r] = NoResult]
    /\ UNCHANGED <<custVars, prodVars, orderVars, logVars, now>>

\* One pass of the loop body: stock += 10 on the instance as it was read,
\* save() writes the instance's fields to its row, the instance is appended.
UpdateLowStockProductsSave(r) ==
    /\ pc[r] = "ul_save"
    /\ req[r].idx <= Len(req[r].selected)
    /\ LET product == Touch(Restock(req[r].selected[req[r].idx]), now)
       IN  /\ products' = SaveProduct(products, product)
           /\ req' = [req EXCEPT ![r].updated = Append(@, product),
                                 ![r].idx = @ + 1]
    /\ UNCHANGED <<custVars, orderVars, logVars, now, pc, result>>

UpdateLowStockProductsReturn(r) ==
    /\ pc[r] = "ul_save"
    /\ req[r].idx > Len(req[r].selected)
    /\ result' = [result EXCEPT ![r] =
            [message |-> UpdatedMessage(Len(req[r].updated)),
             updated_products |-> req[r].updated]]
    /\ pc' = [pc EXCEPT ![r] = "done"]
    /\ UNCHANGED <<custVars, prodVars, orderVars, logVars, now, req>>

----------------------------------------------------------------------------
(* Persistence layer: Order and its association table *)

\* Order inputs: customer 1 exists and customer 2 does not; products 1 and 2
\* exist and products 3 and 4 do not (see InitPopulated).
OrderInput ==
    {[customer_id |-> 1, product_ids |-> <<1, 2>>],
     [customer_id |-> 1, product_ids |-> <<1, 1>>],
     [customer_id |-> 1, product_ids |-> <<>>],
     [customer_id |-> 2, product_ids |-> <<>>],
     [customer_id |-> 2, product_ids |-> <<3>>],
     [customer_id |-> 1, product_ids |-> <<1, 3>>],
     [customer_id |-> 1, product_ids |-> <<4, 3>>]}

\* Model.objects.get(pk=...): the row, or DoesNotExist.
Resolves(table, pk) == pk \in 1..Len(table)

\* The empty-list check made before the customer lookup.
FirstCheckEmptyFirst(table, input) ==
    IF Len(input.product_ids) = 0 THEN "no_products"
    ELSE IF ~Resolves(table, input.customer_id) THEN "no_customer"
    ELSE "ok"

\* The customer lookup, then `if not input.product_ids or len(...) == 0`.
FirstCheck(table, input) ==
    IF ~Resolves(table, input.customer_id) THEN "no_customer"
    ELSE IF Len(input.product_ids) = 0 THEN "no_products"
    ELSE "ok"

RECURSIVE SumPrices(_)
\* sum(product.price for product in products)
SumPrices(insts) ==
    IF insts = <<>> THEN 0 ELSE Head(insts).price + SumPrices(Tail(insts))

\* order.products.set(products): one association row per distinct product.
LinksOf(order_id, insts) == {<<order_id, insts[i].id>> : i \in 1..Len(insts)}

\* Leaving `with transaction.atomic()` on an exception while keeping what the
\* statements inside it had written.
TxRollbackKeep(committed, pending) == committed \cup pending

\* Leaving `with transaction.atomic()`: normally the pending writes are
\* committed together, on an exception they are all rolled back.
TxCommit(committed, pending) == committed \cup pending
TxRollback(committed, pending) == committed

OrderFailure(message) == [order |-> None, message |-> message, success |-> FALSE]

----------------------------------------------------------------------------
(* CreateOrder.mutate *)

\* Customer.objects.get(pk=input.customer_id) and the empty-list check.
CreateOrderBegin(r) ==
    /\ Idle(r)
    /\ order_seq < MaxOrders
    /\ \E input \in OrderInput :
        LET check == FirstCheck(customers, input)
        IN  /\ req' = [req EXCEPT ![r] =
                    [op |-> "CreateOrder", input |-> input, products |-> <<>>,
                     tx_order |-> None, tx_links |-> {}]]
            /\ IF check = "no_customer" THEN
                   /\ result' = [result EXCEPT ![r] = OrderFailure(
                          "Customer with ID " \o ToString(input.customer_id)
                              \o " not found")]
                   /\ pc' = [pc EXCEPT ![r] = "done"]
               ELSE IF check = "no_products" THEN
                   /\ result' = [result EXCEPT ![r] = OrderFailure(
                          "At least one product must be selected")]
                   /\ pc' = [pc EXCEPT ![r] = "done"]
               ELSE
                   /\ result' = [result EXCEPT ![r] = NoResult]
                   /\ pc' = [pc EXCEPT ![r] = "co_product"]
    /\ UNCHANGED <<custVars, prodVars, orderVars, logVars, now>>

\* Product.objects.get(pk=product_id) for the next id of the list.
CreateOrderGetProduct(r) ==
    /\ pc[r] = "co_product"
    /\ LET k == Len(req[r].products) + 1
           product_id == req[r].input.product_ids[k]
       IN  IF ~Resolves(products, product_id) THEN
               /\ result' = [result EXCEPT ![r] = OrderFailure(
                      "Invalid product ID: " \o ToString(product_id))]
               /\ pc' = [pc EXCEPT ![r] = "done"]
               /\ UNCHANGED req
           ELSE
               /\ req' = [req EXCEPT ![r].products = Append(@, products[product_id])]
               /\ pc' = [pc EXCEPT ![r] =
                      IF k = Len(req[r].input.product_ids) THEN "co_create"
                      ELSE "co_product"]
               /\ UNCHANGED result
    /\ UNCHANGED <<custVars, prodVars, orderVars, logVars, now>>

\* A statement inside the atomic block raises: the block rolls back and the
\* outer `except Exception` returns the failure.
CreateOrderAbort(r) ==
    /\ orders' = TxRollback(orders, req[r].tx_order)
    /\ order_products' = TxRollback(order_products, req[r].tx_links)
    /\ req' = [req EXCEPT ![r].tx_order = None, ![r].tx_links = {}]
    /\ result' = [result EXCEPT ![r] = OrderFailure("Error: database error")]
    /\ pc' = [pc EXCEPT ![r] = "done"]

\* Order.objects.create(customer=..., order_date=...): the row takes the next id
\* of the sequence (not given back on rollback) and the default total 0.00.
CreateOrderInsert(r) ==
    /\ pc[r] = "co_create"
    /\ order_seq' = order_seq + 1
    /\ \E raises \in BOOLEAN :
        IF raises THEN CreateOrderAbort(r)
        ELSE
            /\ req' = [req EXCEPT ![r].tx_order =
                    Some([id |-> order_seq + 1,
                          customer |-> req[r].input.customer_id,
                          total_amount |-> 0, order_date |-> now])]
            /\ pc' = [pc EXCEPT ![r] = "co_set"]
            /\ UNCHANGED <<orders, order_products, result>>
    /\ UNCHANGED <<custVars, prodVars, logVars, now>>

\* order.products.set(products)
CreateOrderSetProducts(r) ==
    /\ pc[r] = "co_set"
    /\ \E raises \in BOOLEAN :
        IF raises THEN CreateOrderAbort(r)
        ELSE
            /\ req' = [req EXCEPT ![r].tx_links =
                    LinksOf(Get(req[r].tx_order).id, req[r].products)]
            /\ pc' = [pc EXCEPT ![r] = "co_save"]
            /\ UNCHANGED <<orders, order_products, result>>
    /\ UNCHANGED <<custVars, prodVars, order_seq, logVars, now>>

\* total = sum(...); order.total_amount = total; order.save()
CreateOrderSave(r) ==
    /\ pc[r] = "co_save"
    /\ \E raises \in BOOLEAN :
        IF raises THEN CreateOrderAbort(r)
        ELSE
            /\ req' = [req EXCEPT ![r].tx_order =
                    Some([Get(req[r].tx_order) EXCEPT
                            !.total_amount = QuantizeCents(SumPrices(req[r].products))])]
            /\ pc' = [pc EXCEPT ![r] = "co_commit"]
            /\ UNCHANGED <<orders, order_products, result>>
    /\ UNCHANGED <<custVars, prodVars, order_seq, logVars, now>>

\* The atomic block ends: commit, then the success result.
CreateOrderCommit(r) ==
    /\ pc[r] = "co_commit"
    /\ \E raises \in BOOLEAN :
        IF raises THEN CreateOrderAbort(r)
        ELSE
            /\ orders' = TxCommit(orders, req[r].tx_order)
            /\ order_products' = TxCommit(order_products, req[r].tx_links)
            /\ result' = [result EXCEPT ![r] =
                    [order |-> req[r].tx_order,
                     message |-> "Order created successfully", success |-> TRUE]]
            /\ pc' = [pc EXCEPT ![r] = "done"]
            /\ UNCHANGED req
    /\ UNCHANGED <<custVars, prodVars, order_seq, logVars, now>>

\* The tables after one CreateCustomer and two CreateProduct calls: customer 1,
\* product 1 priced 5.50 and product 2 priced 10.00.
InitPopulated ==
    /\ customers = <<NewCustomer(<<>>,
            [name |-> "Ann", email |-> "a@example.com", phone |-> None])>>
    /\ products =
          LET pen == StoredProduct(NewProduct(<<>>,
                        [name |-> "Pen", price |-> 5500], 3, 0))
          IN  <<pen, StoredProduct(NewProduct(<<pen>>,
                        [name |-> "Nut", price |-> 10000], 10, 0))>>
    /\ orders = {}
    /\ order_products = {}
    /\ order_seq = 0
    /\ now = 0
    /\ pc = [r \in Clients |-> "idle"]
    /\ req = [r \in Clients |-> NoRequest]
    /\ result = [r \in Clients |-> NoResult]
    /\ heartbeat_log = <<>>
    /\ low_stock_log = <<>>
    /\ reminders_log = <<>>
    /\ job = [name |-> "none", status |-> "none"]

OrderNext ==
    \E r \in Clients :
        \/ CreateOrderBegin(r)
        \/ CreateOrderGetProduct(r)
        \/ CreateOrderInsert(r)
        \/ CreateOrderSetProducts(r)
        \/ CreateOrderSave(r)
        \/ CreateOrderCommit(r)
        \/ Respond(r)

SpecOrder == InitPopulated /\ [][OrderNext]_vars

\* Restocks that run at the same time, over the populated tables.
RestockRaceNext ==
    \/ \E r \in Clients : UpdateLowStockProductsSelect(r)
    \/ \E r \in Clients : UpdateLowStockProductsSave(r)
    \/ \E r \in Clients : UpdateLowStockProductsReturn(r)
    \/ \E r \in Clients : CreateProduct(r)
    \/ \E r \in Clients : Respond(r)
    \/ Tick

SpecRestockRace == InitPopulated /\ [][RestockRaceNext]_vars

----------------------------------------------------------------------------
(* Scheduled jobs: crm/cron.py and crm/cronjobs/send_order_reminders.py *)

\* JSON values as json.loads returns them: None, str / int, dict, list.
JNull == [t |-> "null"]
JVal(v) == [t |-> "val", v |-> v]
JObj(f) == [t |-> "obj", f |-> f]
JList(s) == [t |-> "list", v |-> s]
NoFields == <<>>

\* j[key]: KeyError when the key is missing, TypeError when j is None.
CanSubscript(j, key) == j.t = "obj" /\ key \in DOMAIN j.f
\* key in j: TypeError when j is None.
CanTestIn(j) == j.t # "null"
HasKey(j, key) == j.t = "obj" /\ key \in DOMAIN j.f

\* What an HTTP POST to the GraphQL endpoint can come to: the request raises
\* (connection refused, timeout), or a response with a status and a body that
\* is JSON or is not.
Unreachable == [raised |-> TRUE]
Response(status, is_json, json) ==
    [raised |-> FALSE, status |-> status, is_json |-> is_json, json |-> json]

HelloBody == JObj([data |-> JObj([hello |-> JVal("Hello, GraphQL!")])])
ErrorsBody == JObj([errors |-> JList(<<JVal("Cannot query field")>>)])
NullDataBody == JObj([data |-> JNull, errors |-> JList(<<JVal("Internal error")>>)])

HealthResponses ==
    {Unreachable,
     Response(500, FALSE, JNull),
     Response(200, FALSE, JNull),
     Response(200, TRUE, HelloBody),
     Response(200, TRUE, ErrorsBody),
     Response(200, TRUE, NullDataBody)}

Timestamp(t) == "t" \o ToString(t)

\* The try block of log_crm_heartbeat: what it appends to the message.
HealthAnnotation(response) ==
    IF response.raised THEN
        <<" - GraphQL endpoint check failed: ", "ConnectionError">>
    ELSE IF response.status = 200 THEN
        IF ~response.is_json THEN
            <<" - GraphQL endpoint check failed: ", "JSONDecodeError">>
        ELSE IF HasKey(response.json, "data") THEN
            IF ~CanTestIn(response.json.f.data) THEN
                <<" - GraphQL endpoint check failed: ", "TypeError">>
            ELSE IF HasKey(response.json.f.data, "hello") THEN
                <<" - GraphQL endpoint responsive: ", response.json.f.data.f.hello.v>>
            ELSE <<>>
        ELSE <<>>
    ELSE <<" - GraphQL endpoint returned status ", ToString(response.status)>>

\* A heartbeat that skips the log line when the health check raised.
HeartbeatLinesOnlyWhenUp(t, response) ==
    IF response.raised THEN <<>>
    ELSE <<<<Timestamp(t), " CRM is alive">> \o HealthAnnotation(response)>>

\* The lines one invocation writes: f.write(message + '\n').
HeartbeatLines(t, response) ==
    <<<<Timestamp(t), " CRM is alive">> \o HealthAnnotation(response)>>

LogBudget == Len(heartbeat_log) + Len(low_stock_log) + Len(reminders_log) < MaxLog

log_crm_heartbeat ==
    /\ LogBudget
    /\ \E response \in HealthResponses :
        /\ heartbeat_log' = heartbeat_log \o HeartbeatLines(now, response)
        /\ job' = [name |-> "log_crm_heartbeat", response |-> response,
                   status |-> "returned"]
    /\ UNCHANGED <<custVars, prodVars, orderVars, now, pc, req, result,
                   low_stock_log, reminders_log>>

\* The response to the updateLowStockProducts mutation of a server that ran it.
RestockBody(updated) ==
    JObj([data |-> JObj([updateLowStockProducts |-> JObj(
        [message |-> JVal(UpdatedMessage(Len(updated))),
         updatedProducts |-> JList([i \in 1..Len(updated) |->
             JObj([name |-> JVal(updated[i].name),
                   stock |-> JVal(updated[i].stock)])])])])])

\* What the restock job's POST can come to when the server did not run the
\* mutation.
RestockFailures ==
    {Unreachable,
     Response(403, FALSE, JNull),
     Response(400, TRUE, ErrorsBody),
     Response(200, TRUE, NullDataBody)}

\* data["data"]["updateLowStockProducts"]["updatedProducts"] does not raise.
HasUpdatedProducts(json) ==
    /\ CanSubscript(json, "data")
    /\ CanSubscript(json.f.data, "updateLowStockProducts")
    /\ CanSubscript(json.f.data.f.updateLowStockProducts, "updatedProducts")

\* The writes of update_low_stock once it holds the decoded response.
RestockEntries(t, json) ==
    <<<<"=== Update Run: ", Timestamp(t), " ===">>>> \o
    (IF HasUpdatedProducts(json) THEN
        LET updated == json.f.data.f.updateLowStockProducts.f.updatedProducts.v
        IN  [i \in 1..Len(updated) |->
                <<updated[i].f.name.v, " New Stock: ", ToString(updated[i].f.stock.v)>>]
            \o <<<<"Status: SUCCESS">>>>
     ELSE <<<<"Error: ", "KeyError or TypeError">>, <<"Raw response: ", "data">>>>)

\* update_low_stock from the response on: requests.post and response.json()
\* stand outside any try block, so what they raise leaves the job; the rest
\* is written to the log.
FinishRestockJob(response) ==
    IF response.raised \/ ~response.is_json THEN
        /\ job' = [name |-> "update_low_stock", response |-> response,
                   status |-> "raised"]
        /\ UNCHANGED low_stock_log
    ELSE
        /\ low_stock_log' = low_stock_log \o RestockEntries(now, response.json)
        /\ job' = [name |-> "update_low_stock", response |-> response,
                   status |-> "returned"]

update_low_stock ==
    /\ LogBudget
    /\ \/ \* The server runs UpdateLowStockProducts.mutate and answers.
          LET updated == Restocked(products, now)
          IN  /\ products' = SaveAll(products, updated)
              /\ FinishRestockJob(Response(200, TRUE, RestockBody(updated)))
       \/ \* The request fails, or is answered without the mutation being run.
          /\ \E response \in RestockFailures : FinishRestockJob(response)
          /\ UNCHANGED products
    /\ UNCHANGED <<custVars, orderVars, now, pc, req, result, heartbeat_log,
                   reminders_log>>

\* What client.execute can come to: it raises (transport or query validation
\* error), or returns the dict under "data".
OrdersResults ==
    {[raised |-> TRUE],
     [raised |-> FALSE, result |-> NoFields],
     [raised |-> FALSE, result |-> [orders |-> <<>>]],
     [raised |-> FALSE, result |->
        [orders |-> <<[id |-> "1", customer |-> [email |-> "a@example.com"]]>>]]}

\* get_pending_orders: [] when execute raises, else result.get('orders', []).
get_pending_orders(outcome) ==
    IF outcome.raised THEN <<>>
    ELSE IF "orders" \in DOMAIN outcome.result THEN outcome.result.orders
    ELSE <<>>

\* log_order_reminders, or the line main writes when the list is empty.
ReminderEntries(t, pending) ==
    IF Len(pending) > 0 THEN
        <<<<"[", Timestamp(t), "] Processing ", ToString(Len(pending)),
            " pending orders:">>>> \o
        [i \in 1..Len(pending) |->
            <<"  - Order ID: ", pending[i].id, ", Customer Email: ",
              pending[i].customer.email>>]
    ELSE <<<<"[", Timestamp(t), "] No pending orders found.">>>>

send_order_reminders ==
    /\ LogBudget
    /\ \E outcome \in OrdersResults :
        /\ reminders_log' =
                reminders_log \o ReminderEntries(now, get_pending_orders(outcome))
        /\ job' = [name |-> "send_order_reminders", response |-> outcome,
                   status |-> "returned"]
    /\ UNCHANGED <<custVars, prodVars, orderVars, now, pc, req, result,
                   heartbeat_log, low_stock_log>>

JobsNext ==
    \/ update_low_stock
    \/ log_crm_heartbeat
    \/ send_order_reminders
    \/ Tick

SpecJobs == InitPopulated /\ [][JobsNext]_vars

----------------------------------------------------------------------------
(* Claims about the scheduled jobs *)

Parts(line) == {line[i] : i \in 1..Len(line)}
Last(log) == log[Len(log)]

HealthCheckFailed(response) ==
    \/ response.raised
    \/ response.status # 200
    \/ ~response.is_json
    \/ ~HasKey(response.json, "data")
    \/ ~HasKey(response.json.f.data, "hello")

HeartbeatErrorLine(line) ==
    \/ " - GraphQL endpoint check failed: " \in Parts(line)
    \/ " - GraphQL endpoint returned status " \in Parts(line)

RemindersFailed(outcome) == outcome.raised \/ "orders" \notin DOMAIN outcome.result

\* C8 as stated: every invocation of a scheduled job returns normally, and an
\* invocation whose request failed or whose response had not the expected
\* shape appends exactly one entry to the job's log, an error entry.
C8_AsStated ==
    [][/\ log_crm_heartbeat =>
            /\ job'.status = "returned"
            /\ HealthCheckFailed(job'.response) =>
                  /\ Len(heartbeat_log') = Len(heartbeat_log) + 1
                  /\ HeartbeatErrorLine(Last(heartbeat_log'))
       /\ update_low_stock =>
            /\ job'.status = "returned"
            /\ job'.response \in RestockFailures =>
                  /\ Len(low_stock_log') = Len(low_stock_log) + 1
                  /\ Last(low_stock_log')[1] = "Error: "
       /\ send_order_reminders =>
            /\ job'.status = "returned"
            /\ RemindersFailed(job'.response) =>
                  /\ Len(reminders_log') = Len(reminders_log) + 1
                  /\ Last(reminders_log')[1] = "Error: "]_vars

\* C9: every invocation of the heartbeat job returns normally and appends
\* exactly one line to the heartbeat log, whatever the health check came to;
\* the line contains "CRM is alive" and, when the endpoint could not be
\* reached, a failure annotation.  Nothing else writes to that log, so n
\* invocations add n lines.
C9_HeartbeatOneLine ==
    [][/\ log_crm_heartbeat =>
            /\ job'.status = "returned"
            /\ Len(heartbeat_log') = Len(heartbeat_log) + 1
            /\ SubSeq(heartbeat_log', 1, Len(heartbeat_log)) = heartbeat_log
            /\ " CRM is alive" \in Parts(Last(heartbeat_log'))
            /\ job'.response.raised =>
                  " - GraphQL endpoint check failed: " \in Parts(Last(heartbeat_log'))
       /\ heartbeat_log' # heartbeat_log => log_crm_heartbeat]_vars

\* Two invocations, the second with the endpoint unreachable: two lines, the
\* last one alive and annotated with the failure.
C9_Witness ==
    /\ job.name = "log_crm_heartbeat"
    /\ job.response.raised
    /\ Len(heartbeat_log) = 2
    /\ " CRM is alive" \in Parts(Last(heartbeat_log))
    /\ " - GraphQL endpoint check failed: " \in Parts(Last(heartbeat_log))
    /\ " - GraphQL endpoint responsive: " \in Parts(heartbeat_log[1])

----------------------------------------------------------------------------
(* Claims about the product mutations *)

RestockDone(r) == pc[r] = "done" /\ req[r].op = "UpdateLowStockProducts"

WasLow(i) == products[i].stock < 10

OthersUntouched ==
    /\ customers' = customers
    /\ orders' = orders
    /\ order_products' = order_products
    /\ heartbeat_log' = heartbeat_log
    /\ low_stock_log' = low_stock_log
    /\ reminders_log' = reminders_log

ReturnsUpdated(r) ==
    /\ {result'[r].updated_products[k] : k \in 1..Len(result'[r].updated_products)}
          = {products'[i] : i \in {k \in 1..Len(products) : WasLow(k)}}
    /\ Len(result'[r].updated_products)
          = Cardinality({k \in 1..Len(products) : WasLow(k)})

\* C5 as stated: one UpdateLowStockProducts call adds exactly 10 to the stock
\* of every product that had stock < 10, leaves the others as they were,
\* changes NO other field of any product and no other entity, and returns
\* exactly the updated products with their new stock.
C5_AsStated ==
    [][\A r \in Clients : UpdateLowStockProducts(r) =>
        /\ Len(products') = Len(products)
        /\ \A i \in 1..Len(products) :
              /\ WasLow(i) => products'[i] = [products[i] EXCEPT !.stock = @ + 10]
              /\ ~WasLow(i) => products'[i] = products[i]
        /\ OthersUntouched
        /\ ReturnsUpdated(r)]_vars

\* C5 (amended): one UpdateLowStockProducts call, run without interference,
\* adds exactly 10 to the stock of every product that had stock < 10 and sets
\* that product's updated_at to the time of the save; it changes no other
\* field of those products, leaves every product with stock >= 10 (10
\* included) as it was, changes no other entity, and returns exactly the
\* updated products with their new stock.
C5_RestockFrame ==
    [][\A r \in Clients : UpdateLowStockProducts(r) =>
        /\ Len(products') = Len(products)
        /\ \A i \in 1..Len(products) :
              /\ WasLow(i) =>
                    products'[i] = [products[i] EXCEPT !.stock = @ + 10,
                                                       !.updated_at = now]
              /\ ~WasLow(i) => products'[i] = products[i]
        /\ OthersUntouched
        /\ ReturnsUpdated(r)]_vars

\* A call that restocked a product created earlier (3 -> 13, updated_at moved)
\* next to a product with stock exactly 10 that it left alone.
C5_Witness ==
    \E r \in Clients :
        /\ RestockDone(r)
        /\ Len(result[r].updated_products) = 1
        /\ result[r].updated_products[1].stock = 13
        /\ result[r].updated_products[1].updated_at = now
        /\ now > 0
        /\ \E i \in 1..Len(products) :
              /\ products[i].name = "Nut"
              /\ products[i].stock = 10
              /\ products[i].updated_at = 0

CreateProductDone(r) == pc[r] = "done" /\ req[r].op = "CreateProduct"

GivenStock(input) == IF input.stock = None THEN 0 ELSE Get(input.stock)

\* C7 as stated: CreateProduct returns success=false and no product when price
\* <= 0 or stock < 0, otherwise the product with the given stock (0 when
\* omitted); and every stored product has price > 0 and stock >= 0.
C7_AsStated ==
    /\ \A r \in Clients : CreateProductDone(r) =>
          IF req[r].input.price <= 0 \/ GivenStock(req[r].input) < 0
          THEN result[r].success = FALSE /\ result[r].product = None
          ELSE /\ result[r].success = TRUE
               /\ result[r].product # None
               /\ Get(result[r].product).stock = GivenStock(req[r].input)
               /\ products[Get(result[r].product).id].stock = GivenStock(req[r].input)
    /\ \A i \in 1..Len(products) : products[i].price > 0 /\ products[i].stock >= 0

\* C10 as stated: the result of UpdateLowStockProducts has success = true, and
\* its message is "No low-stock products found" when nothing qualified and "N
\* products updated" otherwise.
C10_AsStated ==
    \A r \in Clients : RestockDone(r) =>
        LET n == Len(result[r].updated_products)
        IN  /\ "success" \in DOMAIN result[r]
            /\ result[r].success = TRUE
            /\ n = 0 => result[r].message = "No low-stock products found"
            /\ n >= 1 => result[r].message \in
                            {ToString(n) \o " products updated",
                             ToString(n) \o " products updated successfully"}

\* C10 (amended): UpdateLowStockProducts never reports a failure; its result
\* has the fields message and updated_products and no success field, and the
\* message is "N products updated successfully", N the number of products
\* that had stock < 10, also when N = 0 ("0 products updated successfully").
C10_RestockMessage ==
    [][\A r \in Clients : UpdateLowStockProducts(r) =>
        LET n == Cardinality({i \in 1..Len(products) : products[i].stock < 10})
        IN  /\ DOMAIN result'[r] = {"message", "updated_products"}
            /\ Len(result'[r].updated_products) = n
            /\ result'[r].message = ToString(n) \o " products updated successfully"]_vars

\* A call that found products but none with low stock, and says so with N = 0.
C10_Witness ==
    \E r \in Clients :
        /\ RestockDone(r)
        /\ Len(products) >= 1
        /\ \A i \in 1..Len(products) : products[i].stock >= 10
        /\ result[r].updated_products = <<>>
        /\ result[r].message = "0 products updated successfully"

----------------------------------------------------------------------------
(* Claims about CreateOrder *)

OrderIds == {o.id : o \in orders}

LinkedProducts(order_id) == {l[2] : l \in {m \in order_products : m[1] = order_id}}

RECURSIVE SumOfStored(_)
\* Sum of the stored prices of a set of product ids.
SumOfStored(ids) ==
    IF ids = {} THEN 0
    ELSE LET p == CHOOSE x \in ids : TRUE
         IN  products[p].price + SumOfStored(ids \ {p})

OrderDone(r) == pc[r] = "done" /\ req[r].op = "CreateOrder"

\* C2 as stated: a successful CreateOrder leaves exactly one order row for the
\* call, associated with the validated products, whose total_amount is the sum
\* of the prices of the products associated with the order, also when the list
\* names a product more than once.
C2_AsStated ==
    \A r \in Clients : (OrderDone(r) /\ result[r].success) =>
        LET order == Get(result[r].order)
            ids == {req[r].input.product_ids[k] :
                        k \in 1..Len(req[r].input.product_ids)}
        IN  /\ Cardinality({o \in orders : o.id = order.id}) = 1
            /\ LinkedProducts(order.id) = ids
            /\ \A o \in orders : o.id = order.id =>
                  o.total_amount = SumOfStored(LinkedProducts(o.id))

InTransaction(r) == pc[r] \in {"co_create", "co_set", "co_save", "co_commit"}

\* What is visible of orders: every order row has its links, and every link
\* its order row.
NoHalfOrder ==
    /\ \A o \in orders : LinkedProducts(o.id) # {}
    /\ \A l \in order_products : l[1] \in OrderIds

\* The visible tables change in one step only: the commit of one request, which
\* adds the order row with its computed total and all of its links.
CommittedWhole ==
    (orders' # orders \/ order_products' # order_products) =>
        \E r \in Clients :
            /\ pc[r] = "co_commit"
            /\ pc'[r] = "done"
            /\ result'[r].success = TRUE
            /\ \E id \in 1..order_seq :
                /\ id \notin OrderIds
                /\ orders' = orders \cup
                      {[id |-> id, customer |-> req[r].input.customer_id,
                        total_amount |-> SumPrices(req[r].products),
                        order_date |-> now]}
                /\ order_products' = order_products \cup
                      {<<id, req[r].products[k].id>> : k \in 1..Len(req[r].products)}

\* A request that fails inside the transaction leaves no row behind.
FailedLeavesNothing ==
    \A r \in Clients :
        (InTransaction(r) /\ pc'[r] = "done" /\ result'[r].success = FALSE) =>
            /\ orders' = orders
            /\ order_products' = order_products
            /\ result'[r].order = None

\* C3: in every state another query or mutation can see, an order row exists
\* together with all of its product links and its computed total; the visible
\* tables change only by the commit of a whole order, and a CreateOrder that
\* fails inside the transaction leaves no order row and no link.
C3_AllOrNothing ==
    /\ []NoHalfOrder
    /\ [][CommittedWhole /\ FailedLeavesNothing]_vars

\* One request has failed after writing its order row and links inside the
\* transaction, a second one is in the middle of its transaction with its row
\* and links written, and a third order is committed: only that one is visible.
C3_Witness ==
    \E r1, r2 \in Clients :
        /\ OrderDone(r1)
        /\ result[r1].message = "Error: database error"
        /\ pc[r2] = "co_commit"
        /\ req[r2].tx_links # {}
        /\ Get(req[r2].tx_order).id \notin OrderIds
        /\ Cardinality(orders) = 1
        /\ order_seq = 3

SoftFailure(r, message) ==
    /\ result'[r] = [order |-> None, message |-> message, success |-> FALSE]
    /\ orders' = orders
    /\ order_products' = order_products
    /\ order_seq' = order_seq

\* C4: CreateOrder returns success=false, order=None and writes no order row
\* and no link when the customer id does not resolve (whatever the product
\* list), else when the product list is empty, else at the first product id,
\* in list order, that does not resolve, which the message names.
C4_ValidationOrder ==
    [][\A r \in Clients :
        LET input == req'[r].input
            ids == input.product_ids
        IN  /\ (Idle(r) /\ CreateOrderBegin(r)) =>
                  /\ ~Resolves(customers, input.customer_id) =>
                        SoftFailure(r, "Customer with ID "
                            \o ToString(input.customer_id) \o " not found")
                  /\ (Resolves(customers, input.customer_id) /\ ids = <<>>) =>
                        SoftFailure(r, "At least one product must be selected")
                  /\ (Resolves(customers, input.customer_id) /\ ids # <<>>) =>
                        pc'[r] = "co_product"
            /\ (pc[r] = "co_product" /\ CreateOrderGetProduct(r)) =>
                  LET k == Len(req[r].products) + 1
                  IN  /\ \A j \in 1..(k - 1) :
                            /\ Resolves(products, ids[j])
                            /\ req[r].products[j].id = ids[j]
                      /\ ~Resolves(products, ids[k]) =>
                            SoftFailure(r, "Invalid product ID: " \o ToString(ids[k]))
                      /\ Resolves(products, ids[k]) => pc'[r] # "done"
            /\ (pc'[r] = "done" /\ pc[r] # "done" /\ req'[r].op = "CreateOrder"
                    /\ result'[r].success) =>
                  /\ Resolves(customers, input.customer_id)
                  /\ ids # <<>>
                  /\ \A j \in 1..Len(ids) : Resolves(products, ids[j])]_vars

\* A request with an existing customer whose list holds two ids that do not
\* resolve has failed naming the first of the list (4), not the smaller (3).
C4_Witness ==
    \E r \in Clients :
        /\ OrderDone(r)
        /\ req[r].input.product_ids = <<4, 3>>
        /\ result[r] = OrderFailure("Invalid product ID: 4")
        /\ orders # {}

----------------------------------------------------------------------------
(* Claims about the customer mutations *)

UniqueEmails ==
    \A i, j \in 1..Len(customers) :
        customers[i].email = customers[j].email => i = j

\* The step by which a CreateCustomer request returns while its email is stored.
DuplicateRejected(r) ==
    (/\ req[r].op = "CreateCustomer"
     /\ pc[r] \in {"cc_check", "cc_create"}
     /\ pc'[r] = "done"
     /\ EmailExists(customers, req[r].input.email))
    => (/\ result'[r].success = FALSE
        /\ result'[r].customer = None
        /\ customers' = customers)

\* C1: under any interleaving of CreateCustomer and BulkCreateCustomers, no two
\* stored customers share an email, and a CreateCustomer that returns while its
\* email is stored returns success=false, customer=None and leaves the
\* Customer table as it was.
C1_UniqueEmail ==
    /\ []UniqueEmails
    /\ [][\A r \in Clients : DuplicateRejected(r)]_vars

\* A CreateCustomer that passed the exists() check, lost the race to another
\* request storing the same email, and was rejected by the unique index.
C1_Witness ==
    \E r \in Clients :
        /\ pc[r] = "done"
        /\ req[r].op = "CreateCustomer"
        /\ result[r].success = FALSE
        /\ result[r].message = "Error: IntegrityError"
        /\ EmailExists(customers, req[r].input.email)
        /\ Len(customers) = 2

BulkDone(r) == pc[r] = "done" /\ req[r].op = "BulkCreateCustomers"

BulkErrors(r) == IF result[r].errors = None THEN <<>> ELSE Get(result[r].errors)

\* The error strings the mutation can record for row i holding `data`.
DuplicateErrors(i, data) ==
    {RowError(i, "Email " \o data.email \o " already exists"),
     RowError(i, "Error - IntegrityError")}
InvalidErrors(i, data) ==
    {RowError(i, "Validation error - ['Enter a valid email address.']"),
     RowError(i, "Invalid phone format for " \o data.email)}

\* Positions of the error list that report row i.
ErrorsOfRow(r, i) ==
    {k \in 1..Len(BulkErrors(r)) :
        BulkErrors(r)[k] \in DuplicateErrors(i, req[r].input[i])
                               \cup InvalidErrors(i, req[r].input[i])}

ValidEntry(data) ==
    validate_email(data.email) /\ (Truthy(data.phone) => validate_phone(data.phone))

\* C6 as stated: at return, created + errors = input length, every entry is
\* either created once or reported once, a valid entry is created unless its
\* email is already stored, success iff something was created, and EVERY entry
\* whose email repeats an earlier entry of the list is reported as an error.
C6_AsStated ==
    \A r \in Clients : BulkDone(r) =>
        \A j \in 1..Len(req[r].input) :
            (\E i \in 1..(j - 1) : req[r].input[i].email = req[r].input[j].email)
            => ErrorsOfRow(r, j) # {}

\* C6 (amended): at return of BulkCreateCustomers,
\*  - created count + error count = input length, each entry having either
\*    exactly one error string or exactly one created customer;
\*  - an entry that fails validation is reported and every valid entry is still
\*    created, unless its email is already stored (then it is reported);
\*  - an entry whose email repeats an earlier entry of the list THAT WAS CREATED
\*    is reported as an error;
\*  - success is true iff at least one customer was created.
C6_BulkPartialSuccess ==
    \A r \in Clients : BulkDone(r) =>
        LET input == req[r].input
            created == result[r].customers
        IN  /\ Len(created) + Len(BulkErrors(r)) = Len(input)
            /\ \A i \in 1..Len(input) :
                /\ Cardinality(ErrorsOfRow(r, i)) <= 1
                /\ ErrorsOfRow(r, i) = {} => ValidEntry(input[i])
                /\ ErrorsOfRow(r, i) = {} =>
                      \E k \in 1..Len(created) :
                          /\ created[k].email = input[i].email
                          /\ \E n \in 1..Len(customers) : customers[n] = created[k]
                /\ ~ValidEntry(input[i]) => ErrorsOfRow(r, i) # {}
                /\ ValidEntry(input[i]) =>
                      /\ EmailExists(customers, input[i].email)
                      /\ \A k \in ErrorsOfRow(r, i) :
                            BulkErrors(r)[k] \in DuplicateErrors(i, input[i])
            /\ \A k1, k2 \in 1..Len(created) :
                  created[k1].email = created[k2].email => k1 = k2
            /\ \A j \in 1..Len(input) :
                  (\E i \in 1..(j - 1) :
                      /\ input[i].email = input[j].email
                      /\ ErrorsOfRow(r, i) = {})
                  => ErrorsOfRow(r, j) # {}
            /\ result[r].success = (Len(created) > 0)

\* A bulk request whose first entry failed and whose second, valid entry was
\* created all the same.
C6_Witness ==
    \E r \in Clients :
        /\ BulkDone(r)
        /\ Len(req[r].input) = 2
        /\ ErrorsOfRow(r, 1) # {}
        /\ ErrorsOfRow(r, 2) = {}
        /\ Len(result[r].customers) = 1
        /\ result[r].success = TRUE

----------------------------------------------------------------------------
(* Claims: racing restocks *)

\* The product ids in a returned updated_products list, and the stock a
\* returned list reports for a product.
UpdatedIds(r) ==
    {result[r].updated_products[i].id : i \in 1..Len(result[r].updated_products)}
ReportedStock(r, id) ==
    LET i == CHOOSE k \in 1..Len(result[r].updated_products) :
                 result[r].updated_products[k].id = id
    IN  result[r].updated_products[i].stock

\* Both invocations have returned, both selected and saved product id, and
\* both read it with the same stock s (each reports s + 10).
RacedOn(id) ==
    /\ \A r \in Clients : RestockDone(r) /\ id \in UpdatedIds(r)
    /\ \A r1, r2 \in Clients : ReportedStock(r1, id) = ReportedStock(r2, id)

\* C11: when two UpdateLowStockProducts invocations race on the same Product
\* row (both read it with stock s < 10 before either saves), no increment is
\* lost: the final stock is s plus 10 for each of the two invocations.
C11_AsStated ==
    \A id \in 1..Len(products) :
        RacedOn(id) =>
            \A r \in Clients :
                products[id].stock =
                    (ReportedStock(r, id) - RestockIncrement)
                        + RestockIncrement * Cardinality(Clients)

----------------------------------------------------------------------------
(* Claims: sequential restocking *)

StocksNonNegative == \A i \in 1..Len(products) : products[i].stock >= 0
NoneLow == \A i \in 1..Len(products) : ~WasLow(i)

\* What a completed invocation leaves: no product below the threshold, and
\* every product it reports as updated with a stock in 10..19.
RestockedRange(r) ==
    /\ \A i \in 1..Len(products') : products'[i].stock >= LowStockThreshold
    /\ \A k \in 1..Len(result'[r].updated_products) :
          /\ result'[r].updated_products[k].stock \in 10..19
          /\ products'[result'[r].updated_products[k].id].stock \in 10..19

\* C12: sequential restocking reaches a fixed point in one step.  Every state
\* the API reaches has all stocks >= 0; when one UpdateLowStockProducts
\* completes, no product has stock < 10 and every product it updated has its
\* stock in 10..19; this still holds when its response is delivered, and an
\* invocation that starts there (the immediately following one) updates zero
\* products and leaves every product row as it was.
C12_RestockFixedPoint ==
    /\ [](StocksNonNegative /\ \A r \in Clients : RestockDone(r) => NoneLow)
    /\ [][\A r \in Clients :
            /\ UpdateLowStockProducts(r) => RestockedRange(r)
            /\ (RestockDone(r) /\ Respond(r)) => (products' = products /\ NoneLow')
            /\ (NoneLow /\ UpdateLowStockProducts(r)) =>
                  /\ result'[r].updated_products = <<>>
                  /\ products' = products]_vars

\* A second invocation has returned with nothing updated, at a later time
\* than the first one's save: the product restocked from 3 to 13 still has 13
\* and the updated_at of that earlier save.
C12_Witness ==
    \E r \in Clients :
        /\ RestockDone(r)
        /\ result[r].updated_products = <<>>
        /\ \E i \in 1..Len(products) :
              /\ products[i].stock = 13
              /\ products[i].updated_at > 0
              /\ products[i].updated_at < now

====
